---- MODULE Spec2Model ----
(***************************************************************************)
(* Table selection store of static/assets/js/htmx/htmx-download.js:        *)
(* the in-memory map tableData, the per-view sessionStorage entries        *)
(* "selectedRecordIds_<viewId>", and the row checkboxes of each table      *)
(* container, driven by the document-ready, htmx:afterSwap, row-select,    *)
(* select-all and clear handlers.                                          *)
(***************************************************************************)
EXTENDS Integers, Sequences, FiniteSets, TLC

\* ------------------------------------------------------------------ bounds
\* record ids are "1" .. ToString(MaxId)
MaxId == 2
\* longest data-record-ids list the server renders
MaxRecords == 2
\* on pages that show two tables each view lists the records
\* "1" .. ToString(MaxSharedId)
MaxSharedId == 1
\* reload requests issued on one page
MaxRequests == 2
\* setTimeout callbacks of the modal pending at once
MaxTimers == 4
\* characters of a file name in a Content-Disposition header
MaxNameLen == 2

Ids == {ToString(i) : i \in 1..MaxId}

\* view ids with a table container; "" is the id getCurrentViewId returns when
\* a control sits in no container carrying data-view-id
Views == {"v1", "v2"}
\* the view of the pages that show one table
OneView == {"v1"}
NoViewId == ""
ViewIds == Views \cup {NoViewId}

Range(s) == {s[i] : i \in 1..Len(s)}

\* duplicate-free sequences over S of length at most n
RECURSIVE SeqsNoDup(_, _)
SeqsNoDup(S, n) ==
    IF n = 0 THEN {<<>>}
    ELSE LET shorter == SeqsNoDup(S, n - 1)
         IN  shorter \cup {Append(s, x) : s \in shorter, x \in S}

InjectiveSeqs(S, n) == {s \in SeqsNoDup(S, n) : Cardinality(Range(s)) = Len(s)}

\* --------------------------------------------------------- JavaScript values
\* a JSON scalar as parsed: a number or a string, s is its decimal text
JSNumber(s) == [k |-> "num", s |-> s]
JSString(s) == [k |-> "str", s |-> s]
\* any JSON value that is neither a scalar id nor an array ({} or null)
JSObject == [k |-> "obj", s |-> "{}"]

\* String(x): the string a value converts to
String(x) ==
    IF x.k = "obj" THEN "[object Object]" ELSE x.s

\* as MapString, reversing the order
MapStringReversed(items) ==
    [i \in 1..Len(items) |-> String(items[Len(items) + 1 - i])]

\* arr.map(String)
MapString(items) == [i \in 1..Len(items) |-> String(items[i])]

\* arr.includes(id)
Includes(arr, id) == \E i \in 1..Len(arr) : arr[i] = id

\* arr.filter((selectedId) => selectedId !== id)
RECURSIVE FilterOut(_, _)
FilterOut(arr, id) ==
    IF arr = <<>> THEN <<>>
    ELSE IF Head(arr) = id THEN FilterOut(Tail(arr), id)
    ELSE <<Head(arr)>> \o FilterOut(Tail(arr), id)

\* ------------------------------------------------------------- JSON text
\* a JSON text is the sequence of its tokens
LBracket == [k |-> "[", s |-> ""]
RBracket == [k |-> "]", s |-> ""]
Comma == [k |-> ",", s |-> ""]
ValueKinds == {"num", "str", "obj"}

\* as StringifyItems, without the last id
RECURSIVE StringifyItemsShort(_)
StringifyItemsShort(ids) ==
    IF Len(ids) <= 1 THEN <<>>
    ELSE IF Len(ids) = 2 THEN <<JSString(ids[1])>>
    ELSE <<JSString(ids[1]), Comma>> \o StringifyItemsShort(Tail(ids))

RECURSIVE StringifyItems(_)
StringifyItems(ids) ==
    IF ids = <<>> THEN <<>>
    ELSE IF Len(ids) = 1 THEN <<JSString(ids[1])>>
    ELSE <<JSString(ids[1]), Comma>> \o StringifyItems(Tail(ids))

\* as JSONstringify, always an empty array
JSONstringifyEmpty(ids) == <<LBracket, RBracket>>

\* JSON.stringify of an array of strings
JSONstringify(ids) == <<LBracket>> \o StringifyItems(ids) \o <<RBracket>>

\* value, comma, value, ... , value
WellFormedItems(inner) ==
    /\ Len(inner) % 2 = 1
    /\ \A i \in 1..Len(inner) :
        IF i % 2 = 1 THEN inner[i].k \in ValueKinds ELSE inner[i] = Comma

\* JSON.parse: threw is TRUE when the text is no JSON; isArray tells an array
\* from any other value
JSONparse(text) ==
    LET n == Len(text)
        inner == SubSeq(text, 2, n - 1)
        failed == [threw |-> TRUE, isArray |-> FALSE, items |-> <<>>]
    IN  IF n = 0 THEN failed
        ELSE IF n = 1
            THEN IF text[1].k \in ValueKinds
                 THEN [threw |-> FALSE, isArray |-> FALSE, items |-> <<>>]
                 ELSE failed
        ELSE IF text[1] = LBracket /\ text[n] = RBracket
            THEN IF inner = <<>>
                 THEN [threw |-> FALSE, isArray |-> TRUE, items |-> <<>>]
                 ELSE IF WellFormedItems(inner)
                 THEN [threw |-> FALSE, isArray |-> TRUE,
                       items |-> [i \in 1..((Len(inner) + 1) \div 2) |-> inner[2 * i - 1]]]
                 ELSE failed
        ELSE failed

\* ------------------------------------------------------------------- state
VARIABLES
    tableData,       \* viewId -> entry of the Map tableData (known = has an entry)
    sessionStorage,  \* viewId -> the item selectedRecordIds_<viewId>
    recordIdsAttr,   \* view -> data-record-ids of its table container, parsed
    rows,            \* view -> ids of the rows in its table body
    tbody,           \* view -> the rows of its table body, in document order
    checkedBoxes,    \* view -> ids of the rows whose row-select checkbox is checked
    inFlight,        \* the responses to reload requests that are under way
    applied,         \* the responses whose htmx:afterSwap ran on this page, in order
    timeout,         \* the view the pending call of updateActionButtonsVisibility is for
    actionButtons,   \* view -> its bulk-action buttons are visible
    last,            \* the handler that ran last, with its arguments
    doRequests,      \* the doRequest events triggered on bulk-delete buttons
    modalHidden,     \* #deleteModeModal carries the class hidden
    modalBox,        \* #deleteModeBox: its content, and whether it is scaled in
    timers,          \* the pending setTimeout callbacks of the modal, soonest first
    lastCall,        \* the ModalManager method called last on the modal
    xhr,             \* the request of the element under htmx, as the download extension sees it
    downloads,       \* the anchors clicked to save a file, oldest first
    consoleErrors    \* the console.error calls of the download extension

\* the table selection store, its containers and its requests
storeVars == <<tableData, sessionStorage, recordIdsAttr, rows, tbody, checkedBoxes,
               inFlight, applied, timeout, actionButtons>>

\* the modal of the bulk-delete dialog and the requests its button triggers
modalVars == <<doRequests, modalHidden, modalBox, timers, lastCall>>

\* the state of the download extension
downloadVars == <<xhr, downloads, consoleErrors>>

\* the state outside the table selection store
widgetVars == <<modalVars, downloadVars>>

vars == <<tableData, sessionStorage, recordIdsAttr, rows, tbody, checkedBoxes,
          inFlight, applied, timeout, actionButtons, last, widgetVars>>

\* op and view of a handler run, with the id and checked state it read; same:
\* an initialization found the view known and was given the record ids the
\* container carried before; wasAll: allSelected before a row event or a clear
Ran(op, view, id, checked, same, wasAll) ==
    [op |-> op, view |-> view, id |-> id, checked |-> checked, same |-> same,
     wasAll |-> wasAll]

\* the timeout of debounce is not pending
NoTimeout == "(none)"

NoTable == [known |-> FALSE, allRecordIds |-> <<>>, selectedRecordIds |-> <<>>,
            allSelected |-> FALSE]
NoItem == [present |-> FALSE, text |-> <<>>]
Item(text) == [present |-> TRUE, text |-> text]

\* the value of data-record-ids after JSON.parse
ArrayValue(items) == [isArray |-> TRUE, items |-> items]
NonArrayValue == [isArray |-> FALSE, items |-> <<>>]

\* what the server may render into data-record-ids: a list of distinct record
\* keys, as JSON numbers, or something that is no list
RecordIdInputs ==
    {ArrayValue([i \in 1..Len(s) |-> JSNumber(s[i])]) : s \in InjectiveSeqs(Ids, MaxRecords)}
    \cup {NonArrayValue}

\* the rows the server renders along with a record-id list: those of the
\* listed records
ListedRows(recordIds) ==
    {String(recordIds.items[i]) : i \in 1..Len(recordIds.items)}

\* a row of a table body is the id its row-select checkbox carries, or the
\* tr.htmx-sentinel row that requests the next page, or a tr.separator row
\* that heads a group of rows
Sentinel == "htmx-sentinel"
Separator == "separator"

\* the table body the server renders along with a record-id list: the rows of
\* the listed records in the list's order, closed by a sentinel row when more
\* pages are to come
RenderedRows(recordIds, more) ==
    MapString(recordIds.items) \o (IF more THEN <<Sentinel>> ELSE <<>>)

\* the table body of a grouped list: a separator row before each data row
RECURSIVE GroupedRows(_)
GroupedRows(body) ==
    IF body = <<>> THEN <<>>
    ELSE (IF Head(body) = Sentinel THEN <<>> ELSE <<Separator>>)
         \o <<Head(body)>> \o GroupedRows(Tail(body))

\* the ids of the data rows of a body
DataRowIds(body) == Range(body) \ {Sentinel, Separator}

\* the rows of the records of S among "1" .. ToString(n), in ascending order
RECURSIVE RowsUpTo(_, _)
RowsUpTo(S, n) ==
    IF n = 0 THEN <<>>
    ELSE RowsUpTo(S, n - 1) \o (IF ToString(n) \in S THEN <<ToString(n)>> ELSE <<>>)

\* the records of the pages that show two tables, and the lists rendered there
SharedIds == {ToString(i) : i \in 1..MaxSharedId}
SharedRecordIdInputs ==
    {ArrayValue([i \in 1..Len(s) |-> JSNumber(s[i])]) :
        s \in InjectiveSeqs(SharedIds, MaxSharedId)}

\* ------------------------------------------------------- store operations
\* line 460
AllRecordIdsOf(recordIds) ==
    IF recordIds.isArray /\ Len(recordIds.items) > 0
    THEN MapString(recordIds.items)
    ELSE <<>>

\* as CoversAll, comparing the lengths only
CoversAllByLength(selected, all) == Len(selected) = Len(all)

\* lines 474-476
CoversAll(selected, all) ==
    /\ Len(selected) = Len(all)
    /\ \A i \in 1..Len(all) : Includes(selected, all[i])

\* as Rehydrate, never reading the stored selections
RehydrateNothing(table, stored) == table

\* as Rehydrate, taking the stored selection and leaving allSelected as it is
RehydrateLeavesFlag(table, stored) ==
    IF stored.present /\ stored.text # <<>>
    THEN LET parsed == JSONparse(stored.text)
         IN  IF ~parsed.threw /\ parsed.isArray
             THEN [table EXCEPT !.selectedRecordIds = MapString(parsed.items)]
             ELSE [table EXCEPT !.selectedRecordIds = <<>>]
    ELSE table

\* as Rehydrate, a stored text that is no serialized list becoming the
\* selection, token by token
RehydrateKeepsMalformed(table, stored) ==
    IF stored.present /\ stored.text # <<>>
    THEN LET parsed == JSONparse(stored.text)
         IN  IF ~parsed.threw /\ parsed.isArray
             THEN LET sel == MapString(parsed.items)
                  IN  [table EXCEPT !.selectedRecordIds = sel,
                                    !.allSelected = CoversAll(sel, table.allRecordIds)]
             ELSE [table EXCEPT !.selectedRecordIds = MapString(stored.text)]
    ELSE table

\* lines 470-481: the entry after the stored selections were looked at
Rehydrate(table, stored) ==
    IF stored.present /\ stored.text # <<>>
    THEN LET parsed == JSONparse(stored.text)
         IN  IF ~parsed.threw /\ parsed.isArray
             THEN LET sel == MapString(parsed.items)
                  IN  [table EXCEPT !.selectedRecordIds = sel,
                                    !.allSelected = CoversAll(sel, table.allRecordIds)]
             ELSE [table EXCEPT !.selectedRecordIds = <<>>]
    ELSE table

\* lines 459-481: the entry initializeRecordIds leaves for a non-empty viewId
InitializedEntry(recordIds, stored) ==
    LET fresh == [known |-> TRUE, allRecordIds |-> AllRecordIdsOf(recordIds),
                  selectedRecordIds |-> <<>>, allSelected |-> FALSE]
    IN  IF Len(fresh.allRecordIds) > 0 THEN Rehydrate(fresh, stored) ELSE fresh

\* as InitializeRecordIds, the map being emptied first
InitializeRecordIdsEmptying(td, ss, recordIds, viewId) ==
    IF viewId = NoViewId THEN td
    ELSE [w \in ViewIds |->
             IF w = viewId THEN InitializedEntry(recordIds, ss[viewId]) ELSE NoTable]

\* initializeRecordIds(recordIds, viewId) on the map
InitializeRecordIds(td, ss, recordIds, viewId) ==
    IF viewId = NoViewId THEN td
    ELSE [td EXCEPT ![viewId] = InitializedEntry(recordIds, ss[viewId])]

\* as RowSelected, allSelected surviving an uncheck
RowSelectedKeepsFlag(table, id, checked) ==
    IF checked
    THEN IF ~Includes(table.selectedRecordIds, id)
         THEN [table EXCEPT !.selectedRecordIds = Append(@, id)]
         ELSE table
    ELSE [table EXCEPT !.selectedRecordIds = FilterOut(@, id)]

\* as RowSelected, an unchecked id staying in the list
RowSelectedNeverRemoved(table, id, checked) ==
    IF checked
    THEN IF ~Includes(table.selectedRecordIds, id)
         THEN [table EXCEPT !.selectedRecordIds = Append(@, id)]
         ELSE table
    ELSE [table EXCEPT !.allSelected = FALSE]

\* lines 1335-1342
RowSelected(table, id, checked) ==
    IF checked
    THEN IF ~Includes(table.selectedRecordIds, id)
         THEN [table EXCEPT !.selectedRecordIds = Append(@, id)]
         ELSE table
    ELSE [table EXCEPT !.selectedRecordIds = FilterOut(@, id),
                       !.allSelected = FALSE]

\* as AllSelectedEntry, taking the ids in reverse order
AllSelectedEntryReversed(table, checked) ==
    [table EXCEPT !.allSelected = checked,
                  !.selectedRecordIds =
                      IF checked
                      THEN [i \in 1..Len(table.allRecordIds) |->
                               table.allRecordIds[Len(table.allRecordIds) + 1 - i]]
                      ELSE <<>>]

\* lines 492-493
AllSelectedEntry(table, checked) ==
    [table EXCEPT !.allSelected = checked,
                  !.selectedRecordIds = IF checked THEN table.allRecordIds ELSE <<>>]

\* as ClearedEntry, leaving allSelected as it was
ClearedEntryKeepsFlag(table) ==
    [table EXCEPT !.selectedRecordIds = <<>>]

\* lines 508-509
ClearedEntry(table) ==
    [table EXCEPT !.selectedRecordIds = <<>>, !.allSelected = FALSE]

\* lines 552-555: the checkboxes after updateCheckboxStates
CheckboxStates(table, rowIds) ==
    {id \in rowIds : Includes(table.selectedRecordIds, id)}

\* lines 577-589: the data rows of allRows that are (wanted) or are not in the
\* selection, in their order in allRows
RECURSIVE RowsWhere(_, _, _)
RowsWhere(allRows, table, wanted) ==
    IF allRows = <<>> THEN <<>>
    ELSE LET row == Head(allRows)
             rest == RowsWhere(Tail(allRows), table, wanted)
         IN  IF row # Sentinel /\ Includes(table.selectedRecordIds, row) = wanted
             THEN <<row>> \o rest
             ELSE rest

\* $tbody.find("tr").not(".separator")
NotSeparator(row) == row # Separator
ExistingRows(body) == SelectSeq(body, NotSeparator)

\* as ReorderTableRows, the rows outside the selection coming first
ReorderTableRowsUnselectedFirst(table, body, rowsToAdd) ==
    LET allRows == ExistingRows(body) \o rowsToAdd
    IN  RowsWhere(allRows, table, FALSE) \o RowsWhere(allRows, table, TRUE)
        \o (IF Sentinel \in Range(allRows) THEN <<Sentinel>> ELSE <<>>)

\* as ReorderTableRows, the separator rows being taken along as rows outside
\* the selection
ReorderTableRowsWithSeparators(table, body, rowsToAdd) ==
    LET allRows == body \o rowsToAdd
    IN  RowsWhere(allRows, table, TRUE) \o RowsWhere(allRows, table, FALSE)
        \o (IF Sentinel \in Range(allRows) THEN <<Sentinel>> ELSE <<>>)

\* reorderTableRows(viewId, $rowsToAdd) for a view with a store entry: the body
\* it leaves, given the rows the body held
ReorderTableRows(table, body, rowsToAdd) ==
    LET allRows == ExistingRows(body) \o rowsToAdd
    IN  RowsWhere(allRows, table, TRUE) \o RowsWhere(allRows, table, FALSE)
        \o (IF Sentinel \in Range(allRows) THEN <<Sentinel>> ELSE <<>>)

\* selectedRecordIds(viewId)
selectedRecordIds(viewId) ==
    IF tableData[viewId].known THEN tableData[viewId].selectedRecordIds ELSE <<>>

\* ------------------------------------------------------ download extension
\* texts are sequences of characters
Attachment == <<"a", "t", "t", "a", "c", "h", "m", "e", "n", "t">>
Inline == <<"i", "n", "l", "i", "n", "e">>
Filename == <<"f", "i", "l", "e", "n", "a", "m", "e">>
Utf8Prefix == <<"U", "T", "F", "-", "8", "'", "'">>
Download == <<"d", "o", "w", "n", "l", "o", "a", "d">>
Quotes == {"'", "\""}

\* String.prototype.startsWith, and the text after the first n characters
StartsWith(text, pat) == Len(text) >= Len(pat) /\ SubSeq(text, 1, Len(pat)) = pat
Drop(text, n) == SubSeq(text, n + 1, Len(text))

\* contentDisposition.indexOf(pat) !== -1
Contains(text, pat) ==
    \E i \in 1..(Len(text) - Len(pat) + 1) : SubSeq(text, i, i + Len(pat) - 1) = pat

\* the length of the longest run of characters outside stop at the start of
\* text: what [^...]* takes
RECURSIVE RunLength(_, _)
RunLength(text, stop) ==
    IF text = <<>> \/ Head(text) \in stop THEN 0
    ELSE 1 + RunLength(Tail(text), stop)

\* group 1 of the pattern on the text after the = sign: a quote, the shortest
\* run without newline, the same quote; or else the run up to ; or newline
FilenameGroup(value) ==
    LET body == Tail(value)
        k == RunLength(body, {Head(value), "\n"})
    IN  IF value # <<>> /\ Head(value) \in Quotes /\ k < Len(body) /\ body[k + 1] = Head(value)
        THEN SubSeq(value, 1, k + 2)
        ELSE SubSeq(value, 1, RunLength(value, {";", "\n"}))

\* filename[^;=\n]*= at the start of text
FilenameHere(text) ==
    /\ StartsWith(text, Filename)
    /\ LET rest == Drop(text, Len(Filename))
           n == RunLength(rest, {";", "=", "\n"})
       IN  n < Len(rest) /\ rest[n + 1] = "="

\* contentDisposition.match(/filename[^;=\n]*=((['"]).*?\2|[^;\n]*)/): the
\* leftmost match
RECURSIVE FilenameMatch(_)
FilenameMatch(text) ==
    IF text = <<>> THEN [matched |-> FALSE, group1 |-> <<>>]
    ELSE IF FilenameHere(text)
         THEN LET rest == Drop(text, Len(Filename))
                  n == RunLength(rest, {";", "=", "\n"})
              IN  [matched |-> TRUE, group1 |-> FilenameGroup(Drop(rest, n + 1))]
         ELSE FilenameMatch(Tail(text))

\* replace(/['"]/g, '')
RECURSIVE StripQuotes(_)
StripQuotes(text) ==
    IF text = <<>> THEN <<>>
    ELSE (IF Head(text) \in Quotes THEN <<>> ELSE <<Head(text)>>) \o StripQuotes(Tail(text))

\* the percent escapes of the headers of the model and what they stand for
Escapes == {[code |-> <<"2", "0">>, char |-> " "], [code |-> <<"2", "7">>, char |-> "'"]}

\* decodeURIComponent: throws URIError on a % that starts no escape
RECURSIVE DecodeURIComponent(_)
DecodeURIComponent(text) ==
    IF text = <<>> THEN [threw |-> FALSE, text |-> <<>>]
    ELSE IF Head(text) # "%"
         THEN LET rest == DecodeURIComponent(Tail(text))
              IN  [threw |-> rest.threw, text |-> <<Head(text)>> \o rest.text]
         ELSE IF Len(text) >= 3 /\ \E e \in Escapes : e.code = SubSeq(text, 2, 3)
              THEN LET e == CHOOSE e \in Escapes : e.code = SubSeq(text, 2, 3)
                       rest == DecodeURIComponent(Drop(text, 3))
                   IN  [threw |-> rest.threw, text |-> <<e.char>> \o rest.text]
              ELSE [threw |-> TRUE, text |-> <<>>]

\* lines 57-65: the name the anchor gets for a Content-Disposition text
ExtractFilename(contentDisposition) ==
    LET filenameMatch == FilenameMatch(contentDisposition)
    IN  IF filenameMatch.matched /\ filenameMatch.group1 # <<>>
        THEN LET filename == StripQuotes(filenameMatch.group1)
             IN  IF StartsWith(filename, Utf8Prefix)
                 THEN DecodeURIComponent(Drop(filename, Len(Utf8Prefix)))
                 ELSE [threw |-> FALSE, text |-> filename]
        ELSE [threw |-> FALSE, text |-> Download]

\* a response header: absent (getResponseHeader gives null) or a text
NoHeader == [present |-> FALSE, text |-> <<>>]
Header(text) == [present |-> TRUE, text |-> text]

\* contentDisposition && contentDisposition.indexOf('attachment') !== -1
IsAttachment(header) ==
    header.present /\ header.text # <<>> /\ Contains(header.text, Attachment)

\* no request of the element is under way
NoXhr ==
    [state |-> "none", n |-> 0, responseType |-> "", wrapped |-> FALSE,
     originalOnload |-> FALSE, status |-> 0, contentDisposition |-> NoHeader,
     param |-> [form |-> "none", name |-> <<>>], contentType |-> "", isBlob |-> FALSE,
     downloadHandled |-> FALSE, onloadCalls |-> 0, shouldSwap |-> "unset",
     swapped |-> "nothing"]

\* ------------------------------------------------------------------ actions
Init ==
    /\ tableData = [v \in ViewIds |-> NoTable]
    /\ sessionStorage = [v \in ViewIds |-> NoItem]
    /\ recordIdsAttr = [v \in Views |-> ArrayValue(<<>>)]
    /\ rows = [v \in Views |-> {}]
    /\ tbody = [v \in Views |-> <<>>]
    /\ checkedBoxes = [v \in Views |-> {}]
    /\ inFlight = {}
    /\ applied = <<>>
    /\ timeout = NoTimeout
    /\ actionButtons = [v \in Views |-> FALSE]
    /\ last = Ran("load", NoViewId, "", FALSE, FALSE, FALSE)
    /\ doRequests = 0
    /\ modalHidden = TRUE
    /\ modalBox = [html |-> "", shown |-> FALSE]
    /\ timers = <<>>
    /\ lastCall = "none"
    /\ xhr = NoXhr
    /\ downloads = <<>>
    /\ consoleErrors = 0

\* a page as the server renders it: no request triggered, the modal hidden
\* and empty, no timer pending
WidgetsReset ==
    /\ doRequests' = 0
    /\ modalHidden' = TRUE
    /\ modalBox' = [html |-> "", shown |-> FALSE]
    /\ timers' = <<>>
    /\ lastCall' = "none"
    /\ xhr' = NoXhr
    /\ downloads' = <<>>
    /\ consoleErrors' = 0

\* A page of the session loads: the script runs again (tableData is a new Map);
\* sessionStorage outlives the page. This page holds no table container.
PageLoad ==
    /\ tableData' = [v \in ViewIds |-> NoTable]
    /\ recordIdsAttr' = [v \in Views |-> ArrayValue(<<>>)]
    /\ rows' = [v \in Views |-> {}]
    /\ tbody' = [v \in Views |-> <<>>]
    /\ checkedBoxes' = [v \in Views |-> {}]
    /\ inFlight' = {}
    /\ applied' = <<>>
    /\ timeout' = NoTimeout
    /\ actionButtons' = [w \in Views |-> FALSE]
    /\ last' = Ran("load", NoViewId, "", FALSE, FALSE, FALSE)
    /\ WidgetsReset
    /\ UNCHANGED sessionStorage

\* A page holding the container of view v loads, rendered with recordIds and
\* the rows of those records (and a sentinel row when more is TRUE):
\* document-ready initializes it
DocumentReadyRendered(v, recordIds, body) ==
    LET td == InitializeRecordIds([w \in ViewIds |-> NoTable], sessionStorage,
                                  recordIds, v)
    IN  /\ tableData' = td
        /\ recordIdsAttr' = [w \in Views |-> IF w = v THEN recordIds ELSE ArrayValue(<<>>)]
        /\ rows' = [w \in Views |-> IF w = v THEN ListedRows(recordIds) ELSE {}]
        /\ tbody' = [w \in Views |-> IF w = v THEN body ELSE <<>>]
        /\ checkedBoxes' =
              [w \in Views |->
                  IF w = v /\ Len(td[v].allRecordIds) > 0
                  THEN CheckboxStates(td[v], ListedRows(recordIds)) ELSE {}]
        /\ inFlight' = {}
        /\ applied' = <<>>
        /\ timeout' = IF Len(td[v].allRecordIds) > 0 THEN v ELSE NoTimeout
        /\ actionButtons' = [w \in Views |-> FALSE]
        /\ last' = Ran("ready", v, "", FALSE,
                        tableData[v].known /\ recordIds = recordIdsAttr[v], FALSE)
        /\ WidgetsReset
        /\ UNCHANGED sessionStorage

\* the page of DocumentReadyRendered with the rows of the listed records, in
\* the order of the list
DocumentReady(v, recordIds, more) ==
    DocumentReadyRendered(v, recordIds, RenderedRows(recordIds, more))

\* the same page with its rows in groups, a separator row heading each
DocumentReadyGrouped(v, recordIds, more) ==
    DocumentReadyRendered(v, recordIds, GroupedRows(RenderedRows(recordIds, more)))

\* htmx:afterSwap, not from the sentinel, on content holding the data container
\* of v: the container now carries recordIds and the body holds the rendered
\* rows; initializeRecordIds, then processNewRecords
AfterSwapReload(v, recordIds, rendered) ==
    LET td == InitializeRecordIds(tableData, sessionStorage, recordIds, v)
    IN  /\ tableData' = td
        /\ recordIdsAttr' = [recordIdsAttr EXCEPT ![v] = recordIds]
        /\ rows' = [rows EXCEPT ![v] = DataRowIds(rendered)]
        /\ tbody' = [tbody EXCEPT ![v] = ReorderTableRows(td[v], rendered, <<>>)]
        /\ checkedBoxes' =
              [checkedBoxes EXCEPT ![v] = CheckboxStates(td[v], DataRowIds(rendered))]
        /\ last' = Ran("reload", v, "", FALSE,
                        tableData[v].known /\ recordIds = recordIdsAttr[v], FALSE)
        /\ timeout' = v
        /\ UNCHANGED <<sessionStorage, actionButtons, widgetVars>>

\* the swap replaced the table container: fresh record ids with their rows
ContainerSwapped(v, more) ==
    /\ \E recordIds \in RecordIdInputs :
          AfterSwapReload(v, recordIds, RenderedRows(recordIds, more))
    /\ UNCHANGED <<inFlight, applied>>

\* the swap replaced the data container alone (line 1451): the table container
\* keeps the data-record-ids it was rendered with, whatever rows arrive
DataContainerSwapped(v, more) ==
    /\ tableData[v].known
    /\ \E rendered \in SUBSET Ids :
          AfterSwapReload(v, recordIdsAttr[v],
                          RowsUpTo(rendered, MaxId) \o (IF more THEN <<Sentinel>> ELSE <<>>))
    /\ UNCHANGED <<inFlight, applied>>

\* as ProcessInfiniteScrollRows, a page arriving while allSelected is true
\* adding its row to the selection
ProcessInfiniteScrollRowsSelecting(v, id, more) ==
    /\ tableData[v].known
    /\ Sentinel \in Range(tbody[v])
    /\ id \notin rows[v]
    /\ tableData' = [tableData EXCEPT ![v].selectedRecordIds =
                         IF tableData[v].allSelected THEN Append(@, id) ELSE @]
    /\ tbody' = [tbody EXCEPT ![v] = Append(@, id)]
    /\ rows' = [rows EXCEPT ![v] = @ \cup {id}]
    /\ checkedBoxes' =
          [checkedBoxes EXCEPT ![v] = IF tableData[v].allSelected THEN @ \cup {id} ELSE @]
    /\ last' = Ran("scroll", v, id, FALSE, FALSE, FALSE)
    /\ UNCHANGED <<sessionStorage, recordIdsAttr, inFlight, applied, timeout,
                   actionButtons, widgetVars>>

\* A request that reloads the table container of v goes out; its response,
\* the n-th requested on this page, will carry recordIds and their rows
ReloadRequested(v, recordIds, more) ==
    /\ tableData[v].known
    /\ Len(applied) + Cardinality(inFlight) < MaxRequests
    /\ inFlight' = inFlight \cup
          {[view |-> v, n |-> Len(applied) + Cardinality(inFlight) + 1,
            recordIds |-> recordIds, more |-> more]}
    /\ last' = Ran("request", v, "", FALSE, FALSE, FALSE)
    /\ UNCHANGED <<tableData, sessionStorage, recordIdsAttr, rows, tbody,
                   checkedBoxes, applied, timeout, actionButtons, widgetVars>>

\* as ReloadArrives, the response of a request that is not the latest one
\* requested being dropped
ReloadArrivesUnlessSuperseded(r) ==
    /\ r \in inFlight
    /\ IF \A other \in inFlight : other.n <= r.n
       THEN AfterSwapReload(r.view, r.recordIds, RenderedRows(r.recordIds, r.more))
       ELSE /\ last' = Ran("reload", r.view, "", FALSE, FALSE, FALSE)
            /\ UNCHANGED <<tableData, sessionStorage, recordIdsAttr, rows, tbody,
                           checkedBoxes, timeout, actionButtons, widgetVars>>
    /\ inFlight' = inFlight \ {r}
    /\ applied' = Append(applied, r)

\* the response r is swapped in, whichever other responses are under way:
\* htmx:afterSwap runs on it
ReloadArrives(r) ==
    /\ r \in inFlight
    /\ AfterSwapReload(r.view, r.recordIds, RenderedRows(r.recordIds, r.more))
    /\ inFlight' = inFlight \ {r}
    /\ applied' = Append(applied, r)

\* htmx:afterSwap triggered by the sentinel row: the response is a page with
\* the row of id, closed by a sentinel row when more pages are to come. The
\* swap has put the rows of the response at the end of the data container,
\* where reorderTableRows finds them; $newRows are rows built anew from the
\* response text
ProcessInfiniteScrollRows(v, id, more) ==
    /\ tableData[v].known
    /\ Sentinel \in Range(tbody[v])
    /\ id \notin rows[v]
    /\ LET newRows == <<id>> \o (IF more THEN <<Sentinel>> ELSE <<>>)
           existingRows == tbody[v] \o newRows
       IN  tbody' = [tbody EXCEPT ![v] =
                        ReorderTableRows(tableData[v], existingRows, newRows)]
    /\ rows' = [rows EXCEPT ![v] = @ \cup {id}]
    /\ checkedBoxes' =
          [checkedBoxes EXCEPT ![v] =
              IF Includes(tableData[v].selectedRecordIds, id) THEN @ \cup {id} ELSE @]
    /\ last' = Ran("scroll", v, id, FALSE, FALSE, FALSE)
    /\ UNCHANGED <<tableData, sessionStorage, recordIdsAttr, inFlight, applied,
                   timeout, actionButtons, widgetVars>>

\* change on input[data-role='row-select']: the user flips the checkbox of a
\* row; in a container without view id the handler returns at once
RowSelectChange(v, id, checked) ==
    /\ v \in Views => id \in rows[v] /\ checked = (id \notin checkedBoxes[v])
    /\ IF tableData[v].known
       THEN LET table == RowSelected(tableData[v], id, checked)
            IN  /\ tableData' = [tableData EXCEPT ![v] = table]
                /\ sessionStorage' =
                      [sessionStorage EXCEPT ![v] = Item(JSONstringify(table.selectedRecordIds))]
                /\ checkedBoxes' = [checkedBoxes EXCEPT ![v] = CheckboxStates(table, rows[v])]
       ELSE /\ UNCHANGED <<tableData, sessionStorage>>
            /\ checkedBoxes' =
                  IF v \in Views
                  THEN [checkedBoxes EXCEPT ![v] =
                           IF checked THEN @ \cup {id} ELSE @ \ {id}]
                  ELSE checkedBoxes
    /\ last' = IF tableData[v].known
               THEN Ran("row", v, id, checked, FALSE, tableData[v].allSelected)
               ELSE Ran("row", v, "", FALSE, FALSE, FALSE)
    /\ timeout' = IF tableData[v].known THEN v ELSE timeout
    /\ UNCHANGED <<rows, tbody, recordIdsAttr, inFlight, applied, actionButtons, widgetVars>>

\* change on input[data-role='select-all']: selectAll(checked, viewId), then
\* reorderTableRows(viewId)
SelectAll(checked, v) ==
    /\ IF v # NoViewId /\ tableData[v].known
       THEN LET table == AllSelectedEntry(tableData[v], checked)
            IN  /\ tableData' = [tableData EXCEPT ![v] = table]
                /\ sessionStorage' =
                      [sessionStorage EXCEPT ![v] = Item(JSONstringify(table.selectedRecordIds))]
                /\ checkedBoxes' =
                      [checkedBoxes EXCEPT ![v] = IF checked THEN rows[v] ELSE {}]
                /\ tbody' = [tbody EXCEPT ![v] = ReorderTableRows(table, @, <<>>)]
       ELSE UNCHANGED <<tableData, sessionStorage, checkedBoxes, tbody>>
    /\ last' = IF v # NoViewId /\ tableData[v].known
               THEN Ran("selectAll", v, "", checked, FALSE, FALSE)
               ELSE Ran("selectAll", v, "", FALSE, FALSE, FALSE)
    /\ timeout' = IF v # NoViewId /\ tableData[v].known THEN v ELSE timeout
    /\ UNCHANGED <<rows, recordIdsAttr, inFlight, applied, actionButtons, widgetVars>>

\* as ClearSelections, without the returns for a view id that has no entry
ClearSelectionsUnguarded(v) ==
    /\ tableData' = [tableData EXCEPT ![v] = IF @.known THEN ClearedEntry(@) ELSE @]
    /\ sessionStorage' = [sessionStorage EXCEPT ![v] = NoItem]
    /\ checkedBoxes' = IF v \in Views THEN [checkedBoxes EXCEPT ![v] = {}]
                       ELSE checkedBoxes
    /\ last' = Ran("clear", v, "", FALSE, FALSE, tableData[v].allSelected)
    /\ timeout' = IF v # NoViewId /\ tableData[v].known THEN v ELSE timeout
    /\ UNCHANGED <<rows, tbody, recordIdsAttr, inFlight, applied, actionButtons, widgetVars>>

\* clearSelections(viewId)
ClearSelections(v) ==
    /\ IF v # NoViewId /\ tableData[v].known
       THEN /\ tableData' = [tableData EXCEPT ![v] = ClearedEntry(@)]
            /\ sessionStorage' = [sessionStorage EXCEPT ![v] = NoItem]
            /\ checkedBoxes' = [checkedBoxes EXCEPT ![v] = {}]
       ELSE UNCHANGED <<tableData, sessionStorage, checkedBoxes>>
    /\ last' = Ran("clear", v, "", FALSE, FALSE, tableData[v].allSelected)
    /\ timeout' = IF v # NoViewId /\ tableData[v].known THEN v ELSE timeout
    /\ UNCHANGED <<rows, tbody, recordIdsAttr, inFlight, applied, actionButtons, widgetVars>>

\* texts under a selectedRecordIds_ key that are no serialized list: the empty
\* text, a text that is no JSON, and JSON values that are no list
MalformedTexts ==
    {<<>>, <<LBracket>>, <<LBracket, JSString("1")>>, <<JSObject>>,
     <<JSString("1")>>, <<JSNumber("1")>>}

\* something other than the handlers of this file (another script, the user's
\* developer tools) has left text under the key of view v
StorageTampered(v, text) ==
    /\ sessionStorage' = [sessionStorage EXCEPT ![v] = Item(text)]
    /\ last' = Ran("tamper", v, "", FALSE, FALSE, FALSE)
    /\ UNCHANGED <<tableData, recordIdsAttr, rows, tbody, checkedBoxes, inFlight, applied,
                   timeout, actionButtons, widgetVars>>

\* --------------------------------------------------- action-button updates
\* A page holding the containers of two views loads, that of first before
\* that of second in the document: document-ready initializes one after the
\* other, each initialization with a record-id list calling the debounced
\* updateActionButtonsVisibility
DocumentReadyTables(first, second, recordIds1, recordIds2) ==
    LET td1 == InitializeRecordIds([w \in ViewIds |-> NoTable], sessionStorage,
                                   recordIds1, first)
        td == InitializeRecordIds(td1, sessionStorage, recordIds2, second)
        rendered == [w \in Views |-> IF w = first THEN recordIds1 ELSE recordIds2]
    IN  /\ first # second
        /\ tableData' = td
        /\ recordIdsAttr' = rendered
        /\ rows' = [w \in Views |-> ListedRows(rendered[w])]
        /\ tbody' = [w \in Views |-> RenderedRows(rendered[w], FALSE)]
        /\ checkedBoxes' =
              [w \in Views |->
                  IF Len(td[w].allRecordIds) > 0
                  THEN CheckboxStates(td[w], ListedRows(rendered[w])) ELSE {}]
        /\ inFlight' = {}
        /\ applied' = <<>>
        /\ timeout' = IF Len(td[second].allRecordIds) > 0 THEN second
                      ELSE IF Len(td[first].allRecordIds) > 0 THEN first
                      ELSE NoTimeout
        /\ actionButtons' = [w \in Views |-> FALSE]
        /\ last' = Ran("ready", second, "", FALSE, FALSE, FALSE)
        /\ WidgetsReset
        /\ UNCHANGED sessionStorage

\* lines 531-536: hasSelections, handed to toggle
ButtonsShown(table) == Len(table.selectedRecordIds) > 0

\* the pending timeout of debounce runs out, 100 ms after the last call of
\* updateActionButtonsVisibility: the function runs for the view of that call
UpdateActionButtonsVisibility ==
    /\ timeout # NoTimeout
    /\ actionButtons' =
          IF tableData[timeout].known
          THEN [actionButtons EXCEPT ![timeout] = ButtonsShown(tableData[timeout])]
          ELSE actionButtons
    /\ timeout' = NoTimeout
    /\ last' = Ran("buttons", timeout, "", FALSE, FALSE, FALSE)
    /\ UNCHANGED <<tableData, sessionStorage, recordIdsAttr, rows, tbody, checkedBoxes,
                   inFlight, applied, widgetVars>>

\* ------------------------------------------------- modals and bulk delete
\* the callbacks handed to setTimeout: the 10 ms one scales the box in (lines
\* 151-153, 240-242), the 300 ms one hides the modal (lines 163-165)
ScaleIn == "scaleIn"
Hide == "hide"

\* the content doBulkDeleteRequest puts into the box
NoRowsSelected == "No Rows Selected"

InsertAt(q, i, x) == SubSeq(q, 1, i - 1) \o <<x>> \o SubSeq(q, i, Len(q))

\* where a callback due in 10 ms may stand among the pending ones: after every
\* 10 ms callback set before it, before or after the 300 ms callbacks that are
\* still to come, depending on how long ago those were set
ScaleInPositions(q) ==
    LET shows == {i \in 1..Len(q) : q[i] = ScaleIn}
        lastShow == IF shows = {} THEN 0 ELSE CHOOSE i \in shows : \A j \in shows : j <= i
    IN  (lastShow + 1)..(Len(q) + 1)

\* ModalManager.open(modalId, modalBoxId)
ModalManagerOpen ==
    /\ Len(timers) < MaxTimers
    /\ modalHidden' = FALSE
    /\ \E i \in ScaleInPositions(timers) : timers' = InsertAt(timers, i, ScaleIn)
    /\ lastCall' = "open"
    /\ last' = Ran("open", NoViewId, "", FALSE, FALSE, FALSE)
    /\ UNCHANGED <<storeVars, downloadVars, doRequests, modalBox>>

\* ModalManager.close(modalId, modalBoxId, clearContent): a callback due in
\* 300 ms comes after every pending one
ModalManagerClose(clearContent) ==
    /\ Len(timers) < MaxTimers
    /\ modalBox' = [html |-> IF clearContent THEN "" ELSE modalBox.html, shown |-> FALSE]
    /\ timers' = Append(timers, Hide)
    /\ lastCall' = "close"
    /\ last' = Ran("close", NoViewId, "", FALSE, FALSE, FALSE)
    /\ UNCHANGED <<storeVars, downloadVars, doRequests, modalHidden>>

\* the pending callback that is due first runs
TimerFires ==
    /\ timers # <<>>
    /\ IF Head(timers) = ScaleIn
       THEN /\ modalBox' = [modalBox EXCEPT !.shown = TRUE]
            /\ UNCHANGED modalHidden
       ELSE /\ modalHidden' = TRUE
            /\ UNCHANGED modalBox
    /\ timers' = Tail(timers)
    /\ last' = Ran("timer", NoViewId, "", FALSE, FALSE, FALSE)
    /\ UNCHANGED <<storeVars, downloadVars, doRequests, lastCall>>

\* as DoBulkDeleteRequest, the request going out whatever the selection
DoBulkDeleteRequestUnchecked(v) ==
    /\ doRequests < MaxRequests
    /\ Len(timers) < MaxTimers
    /\ doRequests' = doRequests + 1
    /\ last' = Ran("bulkDelete", v, "", FALSE, FALSE, FALSE)
    /\ UNCHANGED <<storeVars, downloadVars, modalHidden, modalBox, timers, lastCall>>

\* doBulkDeleteRequest(element), element being #bulk-delete-btn-<v>
DoBulkDeleteRequest(v) ==
    /\ doRequests < MaxRequests
    /\ Len(timers) < MaxTimers
    /\ IF Len(selectedRecordIds(v)) > 0
       THEN /\ doRequests' = doRequests + 1
            /\ UNCHANGED <<modalHidden, modalBox, timers>>
       ELSE /\ modalBox' = [modalBox EXCEPT !.html = NoRowsSelected]
            /\ modalHidden' = FALSE
            /\ \E i \in ScaleInPositions(timers) : timers' = InsertAt(timers, i, ScaleIn)
            /\ UNCHANGED doRequests
    /\ last' = Ran("bulkDelete", v, "", FALSE, FALSE, FALSE)
    /\ UNCHANGED <<storeVars, downloadVars, lastCall>>

\* click on #closeDbModal, the button of the no-rows-selected content:
\* closeDeleteModeModal()
CloseDbModalClick ==
    /\ modalBox.html = NoRowsSelected
    /\ ModalManagerClose(TRUE)

\* ------------------------------------------------------- download requests
\* the file names the server sends: letters, a dot, a space, an apostrophe
NameChars == {"r", ".", " ", "'"}
Names == SeqsNoDup(NameChars, MaxNameLen) \ {<<>>}

\* the server's percent-encoding of a name for a filename* parameter
RECURSIVE PercentEncode(_)
PercentEncode(name) ==
    IF name = <<>> THEN <<>>
    ELSE (IF \E e \in Escapes : e.char = Head(name)
          THEN <<"%">> \o (CHOOSE e \in Escapes : e.char = Head(name)).code
          ELSE <<Head(name)>>) \o PercentEncode(Tail(name))

\* the forms of a filename parameter: filename=<name>, filename="<name>",
\* filename*=UTF-8''<percent-encoded name>; or no filename parameter
ParamForms == {"plain", "quoted", "extended"}
FilenameParams ==
    {[form |-> "none", name |-> <<>>]}
    \cup {[form |-> f, name |-> n] : f \in ParamForms, n \in Names}

\* the text of an attachment header with the parameter p
AttachmentText(p) ==
    Attachment \o
    (CASE p.form = "none" -> <<>>
       [] p.form = "plain" -> <<";", " ">> \o Filename \o <<"=">> \o p.name
       [] p.form = "quoted" -> <<";", " ">> \o Filename \o <<"=", "\"">> \o p.name \o <<"\"">>
       [] p.form = "extended" ->
            <<";", " ">> \o Filename \o <<"*", "=">> \o Utf8Prefix \o PercentEncode(p.name))

\* the Content-Disposition headers of responses: none, inline, attachment
\* with a filename parameter
Dispositions(params) ==
    {[header |-> NoHeader, param |-> [form |-> "none", name |-> <<>>]],
     [header |-> Header(Inline), param |-> [form |-> "none", name |-> <<>>]]}
    \cup {[header |-> Header(AttachmentText(p)), param |-> p] : p \in params}

\* the params of the responses in which the file name plays no part
FewParams ==
    {[form |-> "none", name |-> <<>>], [form |-> "quoted", name |-> <<"r">>]}

Statuses == {200, 204, 404}
\* getResponseHeader('Content-Type'): "" stands for null and the empty text
ContentTypes == {"", "text/csv"}

\* the hx-ext attributes of the element and its parents (NoAttr: none), and
\* extValue === 'download' || extValue.includes('download') on them
NoAttr == "(none)"
HxExtValues == {NoAttr, "download", "json-enc, download", "json-enc"}
IncludesDownload(extValue) == extValue \in {"download", "json-enc, download"}
HxExtChains == {<<e>> : e \in HxExtValues} \cup {<<e, p>> : e \in HxExtValues, p \in HxExtValues}

\* lines 13-25
HasDownloadExt(chain) ==
    \E i \in 1..Len(chain) : chain[i] # NoAttr /\ IncludesDownload(chain[i])

\* htmx:beforeRequest (lines 10-98) for a request of an element whose hx-ext
\* attributes are chain; htmx has set xhr.onload when originalOnload is TRUE
BeforeRequest(chain, originalOnload) ==
    /\ xhr.state \in {"none", "settled"}
    /\ xhr.n < MaxRequests
    /\ xhr' = [NoXhr EXCEPT !.state = "sent", !.n = xhr.n + 1,
                            !.responseType = IF HasDownloadExt(chain) THEN "blob" ELSE "",
                            !.wrapped = HasDownloadExt(chain),
                            !.originalOnload = originalOnload]
    /\ last' = Ran("beforeRequest", NoViewId, "", FALSE, FALSE, FALSE)
    /\ UNCHANGED <<storeVars, modalVars, downloads, consoleErrors>>

\* as BlobOf, a body that is no Blob wrapped under the type octet-stream
\* whatever the Content-Type
BlobOfOctetStream(isBlob, contentType) ==
    [type |-> IF isBlob THEN contentType ELSE "application/octet-stream",
     rebuilt |-> ~isBlob]

\* lines 42-52: the blob handed to createObjectURL
BlobOf(isBlob, contentType) ==
    [type |-> IF isBlob \/ contentType # "" THEN contentType
              ELSE "application/octet-stream",
     rebuilt |-> ~isBlob]

\* as IsDownload, whatever the status
IsDownloadAnyStatus(status, disposition) == IsAttachment(disposition)

\* lines 37-39, the response having the given status and headers: is a file
\* saved
IsDownload(status, disposition) ==
    status >= 200 /\ status < 300 /\ IsAttachment(disposition)

\* xhr.onload: the response has arrived, with this status, Content-Disposition
\* d, Content-Type, and a body that is a Blob or is not
XhrOnload(status, d, contentType, isBlob) ==
    LET arrived == [xhr EXCEPT !.state = "loaded", !.status = status,
                               !.contentDisposition = d.header, !.param = d.param,
                               !.contentType = contentType, !.isBlob = isBlob]
        called == [arrived EXCEPT !.onloadCalls = IF xhr.originalOnload THEN 1 ELSE 0]
        filename == ExtractFilename(d.header.text)
    IN  /\ xhr.state = "sent"
        /\ IF xhr.wrapped /\ IsDownload(status, d.header)
           THEN /\ consoleErrors' = consoleErrors + (IF isBlob THEN 0 ELSE 1)
                /\ IF filename.threw
                   THEN /\ xhr' = arrived
                        /\ UNCHANGED downloads
                   ELSE /\ xhr' = [called EXCEPT !.downloadHandled = TRUE]
                        /\ downloads' = Append(downloads,
                              [n |-> xhr.n, filename |-> filename.text,
                               blob |-> BlobOf(isBlob, contentType), inBody |-> TRUE])
           ELSE /\ xhr' = called
                /\ UNCHANGED <<downloads, consoleErrors>>
        /\ last' = Ran("onload", NoViewId, "", FALSE, FALSE, FALSE)
        /\ UNCHANGED <<storeVars, modalVars>>

\* lines 76-81, 100 ms after a download: the anchor leaves the body
CleanUp ==
    /\ \E i \in 1..Len(downloads) :
          /\ downloads[i].inBody
          /\ \A j \in 1..(i - 1) : ~downloads[j].inBody
          /\ downloads' = [downloads EXCEPT ![i].inBody = FALSE]
    /\ last' = Ran("cleanUp", NoViewId, "", FALSE, FALSE, FALSE)
    /\ UNCHANGED <<storeVars, modalVars, xhr, consoleErrors>>

\* as BeforeSwapDecision, every blob response being kept from the page
BeforeSwapDecisionEveryBlob(x, shouldSwap) ==
    IF x.responseType = "blob" THEN FALSE ELSE shouldSwap

\* lines 100-111: evt.detail.shouldSwap after the extension has seen
\* htmx:beforeSwap
BeforeSwapDecision(x, shouldSwap) ==
    IF x.responseType = "blob" /\ IsAttachment(x.contentDisposition) THEN FALSE
    ELSE shouldSwap

\* htmx:beforeSwap, triggered by the original onload of htmx with its own
\* verdict shouldSwap on the response
BeforeSwap(shouldSwap) ==
    /\ xhr.state = "loaded"
    /\ xhr.onloadCalls > 0
    /\ xhr' = [xhr EXCEPT !.state = "beforeSwap",
                          !.shouldSwap = IF BeforeSwapDecision(xhr, shouldSwap)
                                         THEN "swap" ELSE "no swap"]
    /\ last' = Ran("beforeSwap", NoViewId, "", shouldSwap, FALSE, FALSE)
    /\ UNCHANGED <<storeVars, modalVars, downloads, consoleErrors>>

\* transformResponse(text, xhr, elt), lines 114-125
TransformResponse(text, x) ==
    IF x.responseType = "blob" THEN ""
    ELSE IF IsAttachment(x.contentDisposition) THEN ""
    ELSE text

\* htmx goes on after htmx:beforeSwap: it swaps the transformed response in,
\* or nothing
Settle ==
    /\ xhr.state = "beforeSwap"
    /\ xhr' = [xhr EXCEPT !.state = "settled",
                          !.swapped = IF xhr.shouldSwap = "swap"
                                      THEN TransformResponse("response", xhr)
                                      ELSE "nothing"]
    /\ last' = Ran("settle", NoViewId, "", FALSE, FALSE, FALSE)
    /\ UNCHANGED <<storeVars, modalVars, downloads, consoleErrors>>

\* a response that saw no htmx:beforeSwap (no original onload, or the load
\* threw) is done with
Abandon ==
    /\ xhr.state = "loaded"
    /\ xhr.onloadCalls = 0
    /\ xhr' = [xhr EXCEPT !.state = "settled"]
    /\ last' = Ran("settle", NoViewId, "", FALSE, FALSE, FALSE)
    /\ UNCHANGED <<storeVars, modalVars, downloads, consoleErrors>>

\* the handlers the user drives in the container of one of the views V
ViewEvent(V) ==
    \/ \E v \in V, id \in Ids, checked \in BOOLEAN : RowSelectChange(v, id, checked)
    \/ \E v \in V, checked \in BOOLEAN : SelectAll(checked, v)
    \/ \E v \in V : ClearSelections(v)

\* the handlers the user drives, in a container of one of the views V or in
\* one without view id
UserEvent(V) ==
    \/ \E v \in V \cup {NoViewId}, id \in Ids, checked \in BOOLEAN :
          RowSelectChange(v, id, checked)
    \/ \E v \in V \cup {NoViewId}, checked \in BOOLEAN : SelectAll(checked, v)
    \/ \E v \in V \cup {NoViewId} : ClearSelections(v)

\* pages and reloads that render every row of the view at once: no sentinel row
Next ==
    \/ PageLoad
    \/ \E v \in OneView, recordIds \in RecordIdInputs : DocumentReady(v, recordIds, FALSE)
    \/ \E v \in OneView : ContainerSwapped(v, FALSE)
    \/ \E v \in OneView : DataContainerSwapped(v, FALSE)
    \/ ViewEvent(OneView)

Spec == Init /\ [][Next]_vars

\* pages and reloads of the table container that may end in a sentinel row,
\* and the pages the sentinel row requests
NextScroll ==
    \/ PageLoad
    \/ \E v \in OneView, recordIds \in RecordIdInputs, more \in BOOLEAN :
          DocumentReady(v, recordIds, more)
    \/ \E v \in OneView, more \in BOOLEAN : ContainerSwapped(v, more)
    \/ \E v \in OneView, id \in Ids, more \in BOOLEAN :
          ProcessInfiniteScrollRows(v, id, more)
    \/ ViewEvent(OneView)

SpecScroll == Init /\ [][NextScroll]_vars

\* ------------------------------------------------------------------ claims
Table(v) == tableData[v]

\* this step is an initializeRecordIds of view v (page load or reload swap)
InitStep(v) == last'.op \in {"ready", "reload"} /\ last'.view = v
\* ... that found the view known, with the record ids it is given again
SameIdsInitStep(v) ==
    /\ InitStep(v)
    /\ tableData[v].known
    /\ recordIdsAttr'[v] = recordIdsAttr[v]

\* the list a stored item deserializes to, <<>> when there is none or it is
\* no list
PersistedList(item) ==
    IF item.present /\ ~JSONparse(item.text).threw /\ JSONparse(item.text).isArray
    THEN [i \in 1..Len(JSONparse(item.text).items) |-> JSONparse(item.text).items[i].s]
    ELSE <<>>
HasPersistedList(item) ==
    item.present /\ ~JSONparse(item.text).threw /\ JSONparse(item.text).isArray

C2_RoundTripAllSelected ==
    [][\A v \in Views :
          SameIdsInitStep(v)
          => tableData'[v].allSelected = tableData[v].allSelected]_vars

\* this step is initializeRecordIds(r, v), by either caller
InitializesWith(v, r) == InitStep(v) /\ recordIdsAttr'[v] = r

\* the ids of a rendered list as strings, in order
AsStrings(r) == [i \in 1..Len(r.items) |-> r.items[i].s]

\* C3 as stated: after initializeRecordIds of a list, allRecordIds is the list
\* as strings and selectedRecordIds is the persisted list, empty when there is
\* none
C3_InitializeAnyList ==
    [][\A v \in Views, r \in RecordIdInputs :
          r.isArray /\ InitializesWith(v, r)
          => /\ tableData'[v].allRecordIds = AsStrings(r)
             /\ tableData'[v].selectedRecordIds = PersistedList(sessionStorage[v])]_vars

\* C3 amended: allRecordIds is the list as strings; selectedRecordIds is the
\* persisted list when the record-id list is not empty, and empty when the
\* record-id list is empty or nothing (parseable) is persisted
C3_Initialize ==
    [][\A v \in Views, r \in RecordIdInputs :
          r.isArray /\ InitializesWith(v, r)
          => /\ tableData'[v].allRecordIds = AsStrings(r)
             /\ tableData'[v].selectedRecordIds =
                   IF Len(r.items) > 0 THEN PersistedList(sessionStorage[v])
                   ELSE <<>>]_vars

\* an initialization has taken a stored selection of two ids, in its stored
\* order, into a view listing two records
C3_Witness ==
    \E v \in Views :
        /\ last.op \in {"ready", "reload"} /\ last.view = v
        /\ Table(v).allRecordIds = <<"1", "2">>
        /\ Table(v).selectedRecordIds = <<"2", "1">>
        /\ PersistedList(sessionStorage[v]) = <<"2", "1">>

RowStep(v) == last'.op = "row" /\ last'.view = v /\ tableData[v].known

Selected(v) == Range(tableData[v].selectedRecordIds)

\* the selection after one row event: the id is in it iff the event was a
\* check, the other ids are as before, and no id is held twice
RowEventEffect(v) ==
    /\ Selected(v)' = IF last'.checked THEN Selected(v) \cup {last'.id}
                      ELSE Selected(v) \ {last'.id}
    /\ Cardinality(Selected(v)') = Len(tableData'[v].selectedRecordIds)

\* the set of selected ids once the opposite event on the same row follows
AfterOppositeEvent(v) ==
    Range(RowSelected(tableData'[v], last'.id, ~last'.checked).selectedRecordIds)

C6_SelectAll ==
    [][\A v \in Views :
          last'.op = "selectAll" /\ last'.view = v /\ tableData[v].known
          => /\ tableData'[v].allSelected = last'.checked
             /\ selectedRecordIds(v)' =
                   IF last'.checked THEN tableData[v].allRecordIds ELSE <<>>
             /\ tableData'[v].allRecordIds = tableData[v].allRecordIds]_vars

\* selectAll(true) has selected the two records of a view in the list's order
C6_Witness ==
    \E v \in Views :
        /\ last.op = "selectAll" /\ last.view = v /\ last.checked
        /\ Table(v).allSelected
        /\ selectedRecordIds(v) = <<"2", "1">>
        /\ Table(v).allRecordIds = <<"2", "1">>

\* this step is clearSelections(v)
ClearStep(v) == last'.op = "clear" /\ last'.view = v

\* C7 as stated: clearSelections(v) leaves an empty selection, allSelected
\* false and no persisted entry, also for a view without in-memory entry
C7_ClearAnyView ==
    [][\A v \in Views :
          ClearStep(v)
          => /\ selectedRecordIds(v)' = <<>>
             /\ ~tableData'[v].allSelected
             /\ ~sessionStorage'[v].present]_vars

\* C7 amended: clearSelections(v) on a view that has an in-memory entry leaves
\* an empty selection, allSelected false and no persisted entry; on a view
\* without entry it changes neither the store nor session storage
C7_Clear ==
    [][\A v \in Views :
          ClearStep(v)
          => IF tableData[v].known
             THEN /\ selectedRecordIds(v)' = <<>>
                  /\ ~tableData'[v].allSelected
                  /\ ~sessionStorage'[v].present
             ELSE UNCHANGED <<tableData, sessionStorage>>]_vars

\* clearSelections has emptied a view whose records had all been selected
C7_Witness ==
    \E v \in Views :
        /\ last.op = "clear" /\ last.view = v /\ last.wasAll
        /\ Table(v).known
        /\ Len(Table(v).allRecordIds) > 0
        /\ Table(v).selectedRecordIds = <<>>
        /\ ~sessionStorage[v].present

\* C8 as stated: for every view with a store entry, the persisted entry, when
\* present, deserializes to the in-memory selectedRecordIds, and when absent
\* the in-memory selection is empty
C8_StorageMirrorsAnyView ==
    \A v \in Views :
        Table(v).known
        => IF sessionStorage[v].present
           THEN /\ HasPersistedList(sessionStorage[v])
                /\ PersistedList(sessionStorage[v]) = Table(v).selectedRecordIds
           ELSE Table(v).selectedRecordIds = <<>>

\* C8 amended: the same for every view with a store entry whose allRecordIds
\* is not empty
C8_StorageMirrors ==
    \A v \in Views :
        Table(v).known /\ Len(Table(v).allRecordIds) > 0
        => IF sessionStorage[v].present
           THEN /\ HasPersistedList(sessionStorage[v])
                /\ PersistedList(sessionStorage[v]) = Table(v).selectedRecordIds
           ELSE Table(v).selectedRecordIds = <<>>

\* a view listing records holds a selection of two ids that its persisted
\* entry deserializes to
C8_Witness ==
    \E v \in Views :
        /\ Table(v).known
        /\ Len(Table(v).allRecordIds) > 0
        /\ Len(Table(v).selectedRecordIds) = 2
        /\ sessionStorage[v].present
        /\ PersistedList(sessionStorage[v]) = Table(v).selectedRecordIds

\* the text is the JSON array of the strings of ids, in order
IsSerializationOf(text, ids) ==
    /\ ~JSONparse(text).threw
    /\ JSONparse(text).isArray
    /\ JSONparse(text).items = [i \in 1..Len(ids) |-> JSString(ids[i])]

\* C9: right after a row check/uncheck or a selectAll on a known view, the
\* persisted entry of the view is the serialization of its new
\* selectedRecordIds
C9_PersistsImmediately ==
    [][\A v \in Views :
          last'.op \in {"row", "selectAll"} /\ last'.view = v /\ tableData[v].known
          => /\ sessionStorage'[v].present
             /\ IsSerializationOf(sessionStorage'[v].text,
                                  tableData'[v].selectedRecordIds)]_vars

\* a row check has just grown the selection to two ids and the entry holds both
C9_Witness ==
    \E v \in Views :
        /\ last.op = "row" /\ last.view = v /\ last.checked
        /\ Len(Table(v).selectedRecordIds) = 2
        /\ Table(v).selectedRecordIds[2] = last.id
        /\ IsSerializationOf(sessionStorage[v].text, Table(v).selectedRecordIds)

\* C10: unchecking a row of a known view leaves the view's allSelected false
C10_UncheckClearsAllSelected ==
    [][\A v \in Views :
          RowStep(v) /\ ~last'.checked => ~tableData'[v].allSelected]_vars

\* a row was unchecked in a view whose allSelected was true, and it is false
C10_Witness ==
    \E v \in Views :
        /\ last.op = "row" /\ last.view = v /\ ~last.checked /\ last.wasAll
        /\ Table(v).known
        /\ ~Table(v).allSelected

\* this step is selectAll(checked, v) on a view with a store entry
SelectAllStep(v) == last'.op = "selectAll" /\ last'.view = v /\ tableData[v].known

\* the stored selection an initialization of v finds has as many entries as
\* the new record-id list, which is not empty, and holds each of its ids
RehydratesAll(v) ==
    /\ Len(tableData'[v].allRecordIds) > 0
    /\ HasPersistedList(sessionStorage[v])
    /\ Len(PersistedList(sessionStorage[v])) = Len(tableData'[v].allRecordIds)
    /\ Range(tableData'[v].allRecordIds) \subseteq Range(PersistedList(sessionStorage[v]))

\* C11 as stated: allSelected is true only when a selectAll(true) populated the
\* selection just now, or it was true and the selection is still the one it was
\* (no row check added to it, no initialization rehydrated it); and a
\* selectAll(true) makes it true
C11_OnlyBySelectAll ==
    [][\A v \in Views :
          /\ SelectAllStep(v) /\ last'.checked => tableData'[v].allSelected
          /\ tableData'[v].allSelected
                => \/ SelectAllStep(v) /\ last'.checked
                   \/ /\ tableData[v].allSelected
                      /\ ~InitStep(v)
                      /\ tableData'[v].selectedRecordIds
                            = tableData[v].selectedRecordIds]_vars

\* C11 amended: allSelected is what the last operation writing it made of it:
\* selectAll(checked) makes it checked; an initialization makes it true exactly
\* when it rehydrates a stored selection covering the whole record-id list
\* (however that selection was built); a page load without the view, an
\* uncheck and a clear make it false; a row check and every other step leave
\* it as it was
C11_AllSelectedOrigin ==
    [][\A v \in Views :
          tableData'[v].allSelected
          <=> IF SelectAllStep(v) THEN last'.checked
              ELSE IF InitStep(v) THEN RehydratesAll(v)
              ELSE IF last'.op \in {"load", "ready"} THEN FALSE
              ELSE IF RowStep(v) /\ ~last'.checked THEN FALSE
              ELSE IF ClearStep(v) THEN FALSE
              ELSE tableData[v].allSelected]_vars

\* an initialization has made allSelected true for a selection that row checks
\* built: it holds the record ids in another order than the list's
C11_Witness ==
    \E v \in Views :
        /\ last.op \in {"ready", "reload"} /\ last.view = v
        /\ Table(v).allSelected
        /\ Table(v).selectedRecordIds # Table(v).allRecordIds
        /\ Range(Table(v).selectedRecordIds) = Range(Table(v).allRecordIds)

\* this step processes an infinite-scroll page that brings the row last'.id
\* into view v
ScrollStep(v) == last'.op = "scroll" /\ last'.view = v

\* C12: while allSelected is true in a view listing records, a page that
\* brings a row whose id is not in the selection leaves allRecordIds one
\* longer, holding the new id, and allSelected false
C12_NewPageGrowsAllRecordIds ==
    [][\A v \in Views :
          /\ ScrollStep(v)
          /\ tableData[v].allSelected
          /\ Len(tableData[v].allRecordIds) > 0
          /\ ~Includes(tableData[v].selectedRecordIds, last'.id)
          => /\ Includes(tableData'[v].allRecordIds, last'.id)
             /\ Len(tableData'[v].allRecordIds) = Len(tableData[v].allRecordIds) + 1
             /\ ~tableData'[v].allSelected]_vars

\* C13: after an infinite-scroll page delivered a row, allRecordIds holds its id
C13_ScrollGrowsAllRecordIds ==
    [][\A v \in Views :
          ScrollStep(v) => Includes(tableData'[v].allRecordIds, last'.id)]_vars

\* C14: processing an infinite-scroll page leaves selectedRecordIds,
\* allSelected and the persisted entry of the view as they were, and the
\* checkbox of the new row is checked only if its id was selected already
C14_ScrollLeavesSelection ==
    [][\A v \in Views :
          ScrollStep(v)
          => /\ tableData'[v].selectedRecordIds = tableData[v].selectedRecordIds
             /\ tableData'[v].allSelected = tableData[v].allSelected
             /\ sessionStorage'[v] = sessionStorage[v]
             /\ last'.id \in checkedBoxes'[v]
                   => Includes(tableData[v].selectedRecordIds, last'.id)]_vars

\* a page has brought a row while allSelected was true: the flag is still
\* true, the row is in the body, not in the selection, and not checked
C14_Witness ==
    \E v \in Views :
        /\ last.op = "scroll" /\ last.view = v
        /\ Table(v).allSelected
        /\ Table(v).selectedRecordIds # <<>>
        /\ last.id \in rows[v]
        /\ ~Includes(Table(v).selectedRecordIds, last.id)
        /\ last.id \notin checkedBoxes[v]

\* the ids of the rows in the body that the record-id list of the container
\* does not name: the rows infinite-scroll pages delivered
ScrolledRowIds(v) == rows[v] \ ListedRows(recordIdsAttr[v])

\* C15: each selected id of a view is in its allRecordIds or is the id of a
\* row an infinite-scroll page delivered
C15_SelectionWithinLoaded ==
    \A v \in Views :
        Table(v).known
        => Range(Table(v).selectedRecordIds)
              \subseteq Range(Table(v).allRecordIds) \cup ScrolledRowIds(v)

\* the pages of Spec in a session whose storage may hold malformed entries
NextMalformed ==
    \/ \E v \in OneView, recordIds \in RecordIdInputs : DocumentReady(v, recordIds, FALSE)
    \/ \E v \in OneView : ContainerSwapped(v, FALSE)
    \/ ViewEvent(OneView)
    \/ \E v \in OneView, text \in MalformedTexts : StorageTampered(v, text)

SpecMalformed == Init /\ [][NextMalformed]_vars

\* pages with and without the table of one view, and the handlers of controls
\* inside its container and of controls outside any container
NextUnknownView ==
    \/ PageLoad
    \/ \E v \in OneView, recordIds \in RecordIdInputs :
          DocumentReady(v, recordIds, FALSE)
    \/ UserEvent(OneView)

SpecUnknownView == Init /\ [][NextUnknownView]_vars

\* this step is a row event, a selectAll or a clearSelections for a view id
\* that has no store entry
UnknownViewStep(v) ==
    /\ last'.op \in {"row", "selectAll", "clear"}
    /\ last'.view = v
    /\ ~tableData[v].known

\* C16: for a view id without store entry, the empty one too, a row event, a
\* selectAll and a clearSelections leave the store and session storage as
\* they were, and selectedRecordIds(viewId) returns the empty list
C16_UnknownViewNoOp ==
    [][\A v \in ViewIds :
          UnknownViewStep(v)
          => /\ tableData' = tableData
             /\ sessionStorage' = sessionStorage
             /\ selectedRecordIds(v)' = <<>>]_vars

\* clearSelections has run for a view that has no store entry while a
\* selection is persisted under its key, and the persisted selection is there
C16_Witness ==
    \E v \in Views :
        /\ last.op = "clear" /\ last.view = v
        /\ ~Table(v).known
        /\ selectedRecordIds(v) = <<>>
        /\ PersistedList(sessionStorage[v]) # <<>>

\* C17: an initialization that finds under the view's key an entry that is no
\* serialized list leaves the view with a store entry, an empty selection and
\* allSelected false
C17_MalformedEntryDiscarded ==
    [][\A v \in Views :
          /\ InitStep(v)
          /\ sessionStorage[v].present
          /\ ~HasPersistedList(sessionStorage[v])
          => /\ tableData'[v].known
             /\ tableData'[v].selectedRecordIds = <<>>
             /\ ~tableData'[v].allSelected]_vars

\* a view listing records was initialized while its key held a JSON value
\* that is no list, and its selection is empty
C17_Witness ==
    \E v \in Views :
        /\ last.op \in {"ready", "reload"} /\ last.view = v
        /\ Len(Table(v).allRecordIds) > 0
        /\ sessionStorage[v] = Item(<<JSString("1")>>)
        /\ Table(v).selectedRecordIds = <<>>
        /\ ~Table(v).allSelected

\* the data rows of the selection come before the other data rows, and a
\* sentinel row is nowhere but at the end of the body
SelectedRowsFirst(body, table) ==
    /\ \A i, j \in 1..Len(body) :
          /\ i < j
          /\ body[i] # Sentinel /\ body[j] # Sentinel
          /\ Includes(table.selectedRecordIds, body[j])
          => Includes(table.selectedRecordIds, body[i])
    /\ \A i \in 1..Len(body) : body[i] = Sentinel => i = Len(body)

\* this step ran reorderTableRows on the body of v: a reload, an
\* infinite-scroll page, or a select-all change in a view with a store entry
ReorderStep(v) ==
    /\ last'.view = v
    /\ last'.op \in {"reload", "scroll"} \/ SelectAllStep(v)

\* C19: after reorderTableRows ran, the rows whose id is selected precede the
\* rows whose id is not, and the sentinel row, if there is one, is the last row
C19_SelectedRowsFirst ==
    [][\A v \in Views :
          ReorderStep(v) => SelectedRowsFirst(tbody'[v], tableData'[v])]_vars

\* an infinite-scroll page brought a row whose id was selected: it stands at
\* the head of the body, before a listed row that is not selected, and the
\* sentinel row closes the body
C19_Witness ==
    \E v \in Views :
        /\ last.op = "scroll" /\ last.view = v
        /\ Includes(Table(v).selectedRecordIds, last.id)
        /\ tbody[v][1] = last.id
        /\ \E i \in 1..Len(tbody[v]) :
              /\ tbody[v][i] # Sentinel
              /\ ~Includes(Table(v).selectedRecordIds, tbody[v][i])
              /\ Includes(Table(v).allRecordIds, tbody[v][i])
        /\ tbody[v][Len(tbody[v])] = Sentinel

\* a page is loaded showing the table of the first view, with or without a
\* sentinel row; swaps bring in or reload the container of either view (so
\* that both stand on the page), and the table with a sentinel takes
\* infinite-scroll pages
NextViews ==
    \/ \E v \in OneView, recordIds \in SharedRecordIdInputs, more \in BOOLEAN :
          DocumentReady(v, recordIds, more)
    \/ \E v \in Views, recordIds \in SharedRecordIdInputs :
          /\ AfterSwapReload(v, recordIds, RenderedRows(recordIds, FALSE))
          /\ UNCHANGED <<inFlight, applied>>
    \/ \E v \in Views, id \in SharedIds : ProcessInfiniteScrollRows(v, id, FALSE)
    \/ ViewEvent(Views)

SpecViews == Init /\ [][NextViews]_vars

\* this step is an operation of the store on view a: an initialization, a row
\* event, a selectAll, a clearSelections or an infinite-scroll page
OperationOn(a) ==
    /\ last'.view = a
    /\ last'.op \in {"ready", "reload", "row", "selectAll", "clear", "scroll"}

\* C18: an operation on view a leaves the persisted entry of every other view
\* b as it was, and its store entry (allRecordIds, selectedRecordIds,
\* allSelected) too; where the initialization is that of a page load, the
\* entry of b is the one the load of the page left: none
C18_OtherViewsUntouched ==
    [][\A a \in Views, b \in Views :
          a # b /\ OperationOn(a)
          => /\ sessionStorage'[b] = sessionStorage[b]
             /\ tableData'[b] = IF last'.op = "ready" THEN NoTable
                                ELSE tableData[b]]_vars

\* a view was re-initialized from an empty storage entry while another view
\* of the page holds a selection of the same record, persisted, with
\* allSelected true
C18_Witness ==
    \E a \in Views, b \in Views :
        /\ a # b
        /\ last.op = "reload" /\ last.view = a
        /\ Table(a).allRecordIds = <<"1">>
        /\ Table(a).selectedRecordIds = <<>>
        /\ Table(b).allRecordIds = <<"1">>
        /\ Table(b).selectedRecordIds = <<"1">>
        /\ Table(b).allSelected
        /\ PersistedList(sessionStorage[b]) = <<"1">>

\* a page with one table whose reloads are requested and answered apart, the
\* responses arriving in any order
NextReloads ==
    \/ \E v \in OneView, recordIds \in SharedRecordIdInputs :
          DocumentReady(v, recordIds, FALSE)
    \/ \E v \in OneView, recordIds \in SharedRecordIdInputs :
          ReloadRequested(v, recordIds, FALSE)
    \/ \E r \in inFlight : ReloadArrives(r)
    \/ ViewEvent(OneView)

SpecReloads == Init /\ [][NextReloads]_vars

\* this step is the htmx:afterSwap of the response r
ArrivalOf(r) == inFlight' = inFlight \ {r} /\ applied' = Append(applied, r)

\* C20: a response under way leaves flight only when it arrives (or the page
\* goes), never because of another request; and when a response arrives,
\* before or after the responses of requests issued later, the view's
\* allRecordIds is the list it carries and the selection is the persisted one
\* (empty for an empty list)
C20_LastArrivalWins ==
    [][\A r \in inFlight :
          /\ r \notin inFlight' => ArrivalOf(r) \/ last'.op \in {"load", "ready"}
          /\ ArrivalOf(r)
             => /\ tableData'[r.view].allRecordIds =
                      (IF r.recordIds.isArray THEN AsStrings(r.recordIds) ELSE <<>>)
                /\ tableData'[r.view].selectedRecordIds =
                      (IF r.recordIds.isArray /\ Len(r.recordIds.items) > 0
                       THEN PersistedList(sessionStorage[r.view]) ELSE <<>>)]_vars

\* two reloads were requested; the response of the second arrived first, the
\* response of the first arrived last, and the view has the record ids of
\* the first and the persisted selection
C20_Witness ==
    /\ Len(applied) = 2
    /\ applied[1].n = 2 /\ applied[2].n = 1
    /\ applied[1].recordIds # applied[2].recordIds
    /\ last.op = "reload"
    /\ Table(applied[2].view).allRecordIds = AsStrings(applied[2].recordIds)
    /\ Table(applied[2].view).selectedRecordIds # <<>>
    /\ Table(applied[2].view).selectedRecordIds
          = PersistedList(sessionStorage[applied[2].view])

\* a page with one table and its bulk-delete button; buttons named after other
\* view ids stand on the page too
NextBulkDelete ==
    \/ \E v \in OneView, recordIds \in SharedRecordIdInputs :
          DocumentReady(v, recordIds, FALSE)
    \/ \E v \in OneView, id \in Ids, checked \in BOOLEAN : RowSelectChange(v, id, checked)
    \/ \E v \in Views : DoBulkDeleteRequest(v)
    \/ CloseDbModalClick
    \/ TimerFires

SpecBulkDelete == Init /\ [][NextBulkDelete]_vars

\* this step is doBulkDeleteRequest on the button of view id v
BulkDeleteStep(v) == last'.op = "bulkDelete" /\ last'.view = v

\* C21: doBulkDeleteRequest triggers doRequest exactly when the selection of
\* the view is not empty; with an empty selection or a view id without entry
\* it triggers nothing and shows the modal with the no-rows-selected content
C21_BulkDeleteNeedsSelection ==
    [][\A v \in ViewIds :
          BulkDeleteStep(v)
          => /\ (doRequests' = doRequests + 1) <=> (Len(selectedRecordIds(v)) > 0)
             /\ (doRequests' = doRequests) <=> (Len(selectedRecordIds(v)) = 0)
             /\ (Len(selectedRecordIds(v)) = 0 \/ ~tableData[v].known)
                => /\ doRequests' = doRequests
                   /\ ~modalHidden'
                   /\ modalBox'.html = NoRowsSelected
             /\ Len(selectedRecordIds(v)) > 0
                => UNCHANGED <<modalHidden, modalBox, timers>>]_vars

\* a delete request went out for a view with a selection, after an attempt
\* without selection had brought up the dialog, which still stands
C21_Witness ==
    /\ last.op = "bulkDelete"
    /\ last.view \in Views
    /\ Table(last.view).selectedRecordIds # <<>>
    /\ doRequests = 1
    /\ ~modalHidden
    /\ modalBox.html = NoRowsSelected

\* one request under the download extension, its response a 2xx with any of
\* the Content-Disposition headers
NextFilename ==
    \/ \E originalOnload \in BOOLEAN : BeforeRequest(<<"download">>, originalOnload)
    \/ \E d \in Dispositions(FilenameParams), isBlob \in BOOLEAN :
          downloads = <<>> /\ XhrOnload(200, d, "text/csv", isBlob)
    \/ CleanUp
    \/ \E shouldSwap \in BOOLEAN : BeforeSwap(shouldSwap)
    \/ Settle
    \/ Abandon

SpecFilename == Init /\ [][NextFilename]_vars

\* this step is xhr.onload saving a file
DownloadStep == last'.op = "onload" /\ Len(downloads') = Len(downloads) + 1

\* the name of the file saved last
SavedAs == downloads[Len(downloads)].filename

\* C22: a file is saved under the name of the plain filename parameter
\* (quoted or not), under the percent-decoded name of the extended parameter,
\* and as download without a filename parameter
C22_FilenameFromHeader ==
    [][DownloadStep
       => SavedAs' = IF xhr'.param.form = "none" THEN Download ELSE xhr'.param.name]_vars

\* requests of elements inside and outside the download extension, their
\* responses of any status, with or without attachment, Blob or not
NextDownload ==
    \/ \E chain \in HxExtChains, originalOnload \in BOOLEAN :
          BeforeRequest(chain, originalOnload)
    \/ \E status \in Statuses, d \in Dispositions(FewParams),
          contentType \in ContentTypes, isBlob \in BOOLEAN :
          XhrOnload(status, d, contentType, isBlob)
    \/ CleanUp
    \/ \E shouldSwap \in BOOLEAN : BeforeSwap(shouldSwap)
    \/ Settle
    \/ Abandon

SpecDownload == Init /\ [][NextDownload]_vars

\* this step is the xhr.onload of a request under the download extension
WrappedOnloadStep == last'.op = "onload" /\ xhr.wrapped

\* C23: a 2xx attachment response whose body is no Blob is logged, rebuilt as
\* a Blob of the response's Content-Type (application/octet-stream without
\* one), saved as one file, and the original onload is still called
C23_NonBlobRebuilt ==
    [][WrappedOnloadStep /\ IsDownload(xhr'.status, xhr'.contentDisposition)
         /\ ~xhr'.isBlob
       => /\ consoleErrors' = consoleErrors + 1
          /\ Len(downloads') = Len(downloads) + 1
          /\ downloads'[Len(downloads')].blob =
                [type |-> IF xhr'.contentType # "" THEN xhr'.contentType
                          ELSE "application/octet-stream",
                 rebuilt |-> TRUE]
          /\ xhr.originalOnload => xhr'.onloadCalls = 1]_vars

\* a response without Content-Type and without Blob body was saved as an
\* octet-stream, logged, and htmx's onload ran on it
C23_Witness ==
    /\ last.op = "onload"
    /\ xhr.wrapped /\ ~xhr.isBlob /\ xhr.contentType = ""
    /\ xhr.onloadCalls = 1
    /\ consoleErrors = 1
    /\ Len(downloads) = 1
    /\ downloads[1].blob = [type |-> "application/octet-stream", rebuilt |-> TRUE]

\* this step is htmx:beforeSwap; htmx came with the verdict last'.checked
BeforeSwapStep == last'.op = "beforeSwap"

\* C25: htmx:beforeSwap on a response that was saved as a file leaves
\* shouldSwap false, and nothing of it is swapped in afterwards; on a response
\* without attachment Content-Disposition it leaves htmx's verdict as it was
C25_DownloadNeverSwapped ==
    [][/\ BeforeSwapStep /\ xhr.downloadHandled => xhr'.shouldSwap = "no swap"
       /\ last'.op = "settle" /\ xhr.downloadHandled => xhr'.swapped = "nothing"
       /\ BeforeSwapStep /\ ~IsAttachment(xhr.contentDisposition)
          => xhr'.shouldSwap = (IF last'.checked THEN "swap" ELSE "no swap")]_vars

\* htmx would have swapped the response in, the response had been saved as a
\* file, and the extension turned shouldSwap to false
C25_Witness ==
    /\ last.op = "beforeSwap" /\ last.checked
    /\ xhr.downloadHandled
    /\ Len(downloads) > 0 /\ downloads[Len(downloads)].n = xhr.n
    /\ xhr.shouldSwap = "no swap"

\* C26: the load of a request under the download extension saves one file
\* when the status is 2xx and Content-Disposition holds attachment, and none
\* otherwise; either way the original onload, when htmx had set one, runs
\* exactly once
C26_OneDownloadOneOnload ==
    [][WrappedOnloadStep
       => /\ Len(downloads') =
                Len(downloads) + (IF xhr'.status >= 200 /\ xhr'.status < 300
                                     /\ xhr'.contentDisposition.present
                                     /\ Contains(xhr'.contentDisposition.text, Attachment)
                                  THEN 1 ELSE 0)
          /\ SubSeq(downloads', 1, Len(downloads)) = downloads
          /\ xhr'.onloadCalls = (IF xhr.originalOnload THEN 1 ELSE 0)]_vars

\* after a first response was saved as a file, a second response under the
\* extension, an attachment with status 404, was handed to htmx's onload
\* without a file being saved
C26_Witness ==
    /\ last.op = "onload"
    /\ xhr.wrapped /\ xhr.n = 2
    /\ xhr.status = 404 /\ IsAttachment(xhr.contentDisposition)
    /\ xhr.onloadCalls = 1
    /\ Len(downloads) = 1 /\ downloads[1].n = 1

\* pages with the tables of one or two views, the user's events on them, and
\* the debounced update of the action buttons
NextButtons ==
    \/ \E v \in Views, recordIds \in SharedRecordIdInputs :
          DocumentReady(v, recordIds, FALSE)
    \/ \E first \in Views, second \in Views,
          recordIds1 \in SharedRecordIdInputs, recordIds2 \in SharedRecordIdInputs :
          DocumentReadyTables(first, second, recordIds1, recordIds2)
    \/ UserEvent(Views)
    \/ UpdateActionButtonsVisibility

SpecButtons == Init /\ [][NextButtons]_vars

\* an initialization has asked for the action buttons of v to be updated
Touched(v) == tableData[v].known /\ Len(tableData[v].allRecordIds) > 0

\* C24: when no update of the action buttons is pending any more, the buttons
\* of every view that was touched are visible iff its selection is not empty
C24_ButtonsConverge ==
    timeout = NoTimeout
    => \A v \in Views :
          Touched(v) => (actionButtons[v] <=> Len(Table(v).selectedRecordIds) > 0)

\* C27: in every state reached by initializations, row events, selectAll,
\* clearSelections and infinite-scroll pages, a view whose allSelected is
\* true has every id of its allRecordIds among its selectedRecordIds
C27_AllSelectedCoversAll ==
    \A v \in Views :
        Table(v).allSelected
        => Range(Table(v).allRecordIds) \subseteq Range(Table(v).selectedRecordIds)

\* an infinite-scroll page arrived in a view whose one listed record is
\* selected with allSelected true; the row of the page is not selected
C27_Witness ==
    \E v \in Views :
        /\ last.op = "scroll" /\ last.view = v
        /\ Table(v).allSelected
        /\ Table(v).allRecordIds = <<"1">>
        /\ Table(v).selectedRecordIds = <<"1">>
        /\ rows[v] = {"1", "2"}
        /\ checkedBoxes[v] = {"1"}

\* pages whose table body is rendered in groups, a separator row heading each
\* data row, with the infinite-scroll pages and the user's events
NextReorder ==
    \/ \E v \in OneView, recordIds \in RecordIdInputs, more \in BOOLEAN :
          DocumentReadyGrouped(v, recordIds, more)
    \/ \E v \in OneView, id \in Ids, more \in BOOLEAN :
          ProcessInfiniteScrollRows(v, id, more)
    \/ ViewEvent(OneView)

SpecReorder == Init /\ [][NextReorder]_vars

\* how often the row x stands in a body
Count(body, x) == Cardinality({i \in 1..Len(body) : body[i] = x})

\* the body reorderTableRows found, and the rows it was handed, in a step that
\* called it: a select-all change finds the body as it stood and adds
\* nothing; an infinite-scroll page finds the body with the rows of the
\* response swapped in at its end, and is handed those rows, built anew
BodyFound(v) ==
    IF last'.op = "scroll" THEN tbody[v] \o <<last'.id>> ELSE tbody[v]
RowsHanded(v) ==
    IF last'.op = "scroll" THEN <<last'.id>> ELSE <<>>

\* C28: reorderTableRows leaves in the body each data row it found there and
\* each row it was handed, once each, no separator row and at most one
\* sentinel row; run again on that body with the same selection and no new
\* rows it leaves the order as it is
C28_RowsKept ==
    [][\A v \in Views :
          (ScrollStep(v) \/ SelectAllStep(v))
          => /\ \A id \in Ids :
                   Count(tbody'[v], id) = Count(BodyFound(v), id) + Count(RowsHanded(v), id)
             /\ Len(tbody'[v]) <= Len(ExistingRows(BodyFound(v))) + Len(RowsHanded(v))
             /\ Count(tbody'[v], Separator) = 0
             /\ Count(tbody'[v], Sentinel) <= 1
             /\ ReorderTableRows(tableData'[v], tbody'[v], <<>>) = tbody'[v]]_vars

\* an infinite-scroll page arrived in a body that had been rendered with
\* separator rows: the body holds the listed row, the row swapped in and the
\* row handed over (two rows of the same record), one sentinel row and no
\* separator row
C28_Witness ==
    \E v \in Views :
        /\ last.op = "scroll" /\ last.view = v
        /\ Table(v).allRecordIds = <<"1">>
        /\ Count(tbody[v], "1") = 1
        /\ Count(tbody[v], last.id) = 2
        /\ Count(tbody[v], Sentinel) = 1
        /\ Count(tbody[v], Separator) = 0
        /\ Len(tbody[v]) = 4

\* one modal, opened and closed through ModalManager in any order, its
\* timeouts running out in between
NextModal ==
    \/ ModalManagerOpen
    \/ \E clearContent \in BOOLEAN : ModalManagerClose(clearContent)
    \/ TimerFires

SpecModal == Init /\ [][NextModal]_vars

\* C29: once no timeout of the modal is pending, the modal is visible if
\* ModalManager.open was called last and hidden if ModalManager.close was
C29_LastCallWins ==
    timers = <<>>
    => /\ lastCall = "open" => ~modalHidden
       /\ lastCall = "close" => modalHidden

====
